---- MODULE Spec2Model ----
(***************************************************************************)
(* Model of the aggregation and graph-construction engine of exportify     *)
(* (src/visualize.py): the /api/statistics and /api/graph-data handlers    *)
(* over the record file read by load_spotify_data.                         *)
(*                                                                         *)
(* A Python str is a sequence of one-character strings.  A Python dict is  *)
(* a sequence of entries in first-insertion order.  A Python set is kept   *)
(* as the sequence of its distinct members in insertion order; the order   *)
(* in which a set of str is iterated depends on the process's string hash  *)
(* seed and is modelled by SetIterationOrder under the variable hashseed.  *)
(* A list of songs holds references: indices into data.                    *)
(* Rounded floats are integers in tenths or hundredths.                    *)
(***************************************************************************)
EXTENDS Integers, Sequences, FiniteSets, TLC

VARIABLES data, hashseed, response

vars == <<data, hashseed, response>>

(***************************************************************************)
(* Bounds of the model.                                                    *)
(***************************************************************************)
\* Longest record sequence drawn exhaustively from SampleRecords.
MaxRecords == 2
\* Longest artist-names field drawn exhaustively over FieldAlphabet.
MaxFieldLen == 5
\* Number of distinct string hash seeds a process may start with.
NumHashSeeds == 2
\* Number of artists (and records) of the large staircase library.
NumStairArtists == 60
\* Number of records of the large library of singles.
NumSingles == 52

(***************************************************************************)
(* Program constants.                                                      *)
(***************************************************************************)
MaxArtistNodes == 50
MaxAlbumNodes == 40
TopStatistics == 10
AlbumNameTruncateLen == 50
StatusOk == 200
StatusError == 500

(***************************************************************************)
(* Strings.                                                                *)
(***************************************************************************)
Whitespace == {" "}

Comma == <<",", " ">>
Semicolon == <<";", " ">>
UnknownAlbum == <<"U","n","k","n","o","w","n"," ","A","l","b","u","m">>
ArtistPrefix == <<"a","r","t","i","s","t","_">>
AlbumPrefix == <<"a","l","b","u","m","_">>
Ellipsis == <<".", ".", ".">>

SetMin(S) == CHOOSE x \in S : \A y \in S : x <= y
SetMax(S) == CHOOSE x \in S : \A y \in S : x >= y
Range(s) == {s[i] : i \in 1..Len(s)}

\* str.__contains__: sep occurs in s as a substring.
Contains(s, sep) ==
  \E i \in 1..(Len(s) - Len(sep) + 1) : SubSeq(s, i, i + Len(sep) - 1) = sep

\* str.split(sep): cut at the non-overlapping occurrences of sep, scanning
\* from the left; empty tokens are kept.
Occurrences(s, sep) ==
  {i \in 1..(Len(s) - Len(sep) + 1) : SubSeq(s, i, i + Len(sep) - 1) = sep}

RECURSIVE SplitAt(_, _, _, _)
SplitAt(s, sep, hits, start) ==
  LET ahead == {i \in hits : i >= start}
  IN IF ahead = {}
     THEN <<SubSeq(s, start, Len(s))>>
     ELSE LET i == SetMin(ahead)
          IN <<SubSeq(s, start, i - 1)>> \o SplitAt(s, sep, hits, i + Len(sep))

split(s, sep) == SplitAt(s, sep, Occurrences(s, sep), 1)

\* str.strip(): drop leading and trailing whitespace.
strip(s) ==
  LET keep == {i \in 1..Len(s) : s[i] \notin Whitespace}
  IN IF keep = {} THEN <<>> ELSE SubSeq(s, SetMin(keep), SetMax(keep))

StripAll(tokens) == [i \in 1..Len(tokens) |-> strip(tokens[i])]

\* s[:n]
Prefix(s, n) == SubSeq(s, 1, IF Len(s) < n THEN Len(s) ELSE n)

(***************************************************************************)
(* Arithmetic.                                                             *)
(***************************************************************************)
Min2(a, b) == IF a < b THEN a ELSE b
Max2(a, b) == IF a > b THEN a ELSE b

\* round(num / den, k) as an integer number of 10^-k units, num already
\* scaled by 10^k: round-half-to-even on the exact quotient.  (A float
\* quotient that is not exactly representable falls on the side its binary
\* value lies; such ties need den divisible by 20, beyond the libraries
\* modelled here.)
RoundHalfEven(num, den) ==
  LET q == num \div den
      r == num % den
  IN IF 2 * r < den THEN q
     ELSE IF 2 * r > den THEN q + 1
     ELSE IF q % 2 = 0 THEN q ELSE q + 1

\* The members of a set of integers in ascending order.
Ascending(S) ==
  [k \in 1..Cardinality(S) |->
     CHOOSE p \in S : Cardinality({q \in S : q < p}) = k - 1]

\* The distinct members of a sequence in the order of their first
\* occurrence: the key order of a dict, the insertion order of a set.
DistinctInOrder(xs) ==
  LET first == Ascending({p \in 1..Len(xs) : \A q \in 1..(p - 1) : xs[q] # xs[p]})
  IN [k \in 1..Len(first) |-> xs[first[k]]]

\* sorted(items, key=..., reverse=True): the indices of keys in descending
\* key order, equal keys keeping their original relative order.
\* Mutant of PlaceDesc: an unstable sort, equal keys in reverse order.
PlaceDescUnstable(keys, i) ==
  1 + Cardinality({j \in 1..Len(keys) :
                     keys[j] > keys[i] \/ (keys[j] = keys[i] /\ j > i)})

\* The place of index i in the result: after every index of a larger key
\* and every earlier index of an equal key.
PlaceDesc(keys, i) ==
  1 + Cardinality({j \in 1..Len(keys) :
                     keys[j] > keys[i] \/ (keys[j] = keys[i] /\ j < i)})

OrderDesc(keys) ==
  LET place == [i \in 1..Len(keys) |-> PlaceDesc(keys, i)]
  IN [k \in 1..Len(keys) |-> CHOOSE i \in 1..Len(keys) : place[i] = k]

SortedBySongsDesc(items) ==
  LET perm == OrderDesc([i \in 1..Len(items) |-> Len(items[i].songs)])
  IN [i \in 1..Len(items) |-> items[perm[i]]]

\* Iteration order of a set of str whose members were inserted in the order
\* of `members`, in a process whose string hash seed is `seed`.
SetIterationOrder(members, seed) ==
  LET n == Len(members)
      k == IF n = 0 THEN 0 ELSE (seed \div 2) % n
      rotated == [i \in 1..n |-> members[((i - 1 + k) % n) + 1]]
  IN IF seed % 2 = 0 THEN rotated
     ELSE [i \in 1..n |-> rotated[n + 1 - i]]

(***************************************************************************)
(* get_graph_data: artist groups (lines 119-144).                          *)
(***************************************************************************)
\* Mutant of SplitArtistNames: '; ' tried before ', '.
SplitArtistNamesSemicolonFirst(artist_names) ==
  IF Contains(artist_names, Semicolon)
  THEN StripAll(split(artist_names, Semicolon))
  ELSE IF Contains(artist_names, Comma)
       THEN StripAll(split(artist_names, Comma))
       ELSE <<strip(artist_names)>>

\* Lines 128-137, for a str field that passed the `not artist_names` test.
SplitArtistNames(artist_names) ==
  IF Contains(artist_names, Comma)
  THEN StripAll(split(artist_names, Comma))
  ELSE IF Contains(artist_names, Semicolon)
       THEN StripAll(split(artist_names, Semicolon))
       ELSE <<strip(artist_names)>>

\* Lines 139-141: `if artist and artist.strip()`, then artist.strip().
IsNamed(artist) == artist # <<>> /\ strip(artist) # <<>>

\* The names under which one song is appended to artist_songs, in order.
SongArtists(song) ==
  IF song.artist_names = <<>> THEN <<>>
  ELSE StripAll(SelectSeq(SplitArtistNames(song.artist_names), IsNamed))

\* The appends of lines 139-144 in the order the loops make them: one
\* [key, idx] for every name of every song.
RECURSIVE ArtistAppendsFrom(_, _)
ArtistAppendsFrom(d, idx) ==
  IF idx > Len(d) THEN <<>>
  ELSE LET artists == SongArtists(d[idx])
       IN [k \in 1..Len(artists) |-> [key |-> artists[k], idx |-> idx]]
            \o ArtistAppendsFrom(d, idx + 1)

\* The dict the appends build: its keys in first-insertion order, each with
\* the list of the songs appended under it.
GroupAppends(appends) ==
  LET keys == DistinctInOrder([p \in 1..Len(appends) |-> appends[p].key])
  IN [k \in 1..Len(keys) |->
        LET mine == SelectSeq(appends, LAMBDA e : e.key = keys[k])
        IN [key |-> keys[k], songs |-> [p \in 1..Len(mine) |-> mine[p].idx]]]

artist_songs(d) == GroupAppends(ArtistAppendsFrom(d, 1))

\* Line 147.
sorted_artists(d) == Prefix(SortedBySongsDesc(artist_songs(d)), MaxArtistNodes)

(***************************************************************************)
(* get_graph_data: artist nodes (lines 149-158).                           *)
(***************************************************************************)
\* sum(s.get('popularity', 0) for s in songs) raises TypeError on a
\* popularity that is not a number.
PopularityRaises(songs, d) == \E i \in 1..Len(songs) : ~d[songs[i]].popularity.num

RECURSIVE PopularitySumFrom(_, _, _)
PopularitySumFrom(songs, d, i) ==
  IF i > Len(songs) THEN 0
  ELSE d[songs[i]].popularity.val + PopularitySumFrom(songs, d, i + 1)

\* round(sum / len, 1), in tenths.
MeanPopularity(songs, d) ==
  IF Len(songs) = 0 THEN 0
  ELSE RoundHalfEven(10 * PopularitySumFrom(songs, d, 1), Len(songs))

\* Mutant of ArtistSize: the floor of 5 is missing.
ArtistSizeNoFloor(n) == Min2(n * 2, 30)

\* Line 155.
ArtistSize(n) == Max2(5, Min2(n * 2, 30))

ArtistId(artist) == ArtistPrefix \o artist

ArtistNode(group, d) ==
  [id |-> ArtistId(group.key), name |-> group.key, type |-> "artist",
   size |-> ArtistSize(Len(group.songs)),
   popularity |-> MeanPopularity(group.songs, d)]

\* The handler's locals nodes, links, node_ids, and whether an exception
\* has been raised (the loops stop there).
NoLocals == [nodes |-> <<>>, links |-> <<>>, node_ids |-> {}, raised |-> FALSE]

RECURSIVE AddArtistNodes(_, _, _, _)
AddArtistNodes(st, groups, i, d) ==
  IF i > Len(groups) \/ st.raised THEN st
  ELSE IF PopularityRaises(groups[i].songs, d)
       THEN [st EXCEPT !.raised = TRUE]
       ELSE AddArtistNodes(
              [st EXCEPT !.nodes = Append(@, ArtistNode(groups[i], d)),
                         !.node_ids = @ \cup {ArtistId(groups[i].key)}],
              groups, i + 1, d)

(***************************************************************************)
(* get_graph_data: album groups (lines 160-190).                           *)
(***************************************************************************)
\* Lines 163-167.
AlbumKey(song) ==
  LET album == song.album_name
  IN strip(IF album = <<>> \/ strip(album) = <<>> THEN UnknownAlbum ELSE album)

\* Lines 176-185, for a str field.
SplitAlbumArtistNames(artist_names) ==
  IF Contains(artist_names, Comma)
  THEN StripAll(split(artist_names, Comma))
  ELSE IF Contains(artist_names, Semicolon)
       THEN StripAll(split(artist_names, Semicolon))
       ELSE IF strip(artist_names) # <<>> THEN <<strip(artist_names)>> ELSE <<>>

\* Lines 187-189: the names one song adds to its album's artist set.
SongAlbumArtists(song) ==
  StripAll(SelectSeq(SplitAlbumArtistNames(song.artist_names), IsNamed))

RECURSIVE AlbumArtistAddsFrom(_, _, _)
AlbumArtistAddsFrom(d, songs, k) ==
  IF k > Len(songs) THEN <<>>
  ELSE SongAlbumArtists(d[songs[k]]) \o AlbumArtistAddsFrom(d, songs, k + 1)

\* Lines 162-190: the dict of albums in first-insertion order, each with
\* the songs appended to it and the set of the artists added to it.
album_data(d) ==
  LET album == [idx \in 1..Len(d) |-> AlbumKey(d[idx])]
      keys == DistinctInOrder(album)
  IN [k \in 1..Len(keys) |->
        LET songs == Ascending({idx \in 1..Len(d) : album[idx] = keys[k]})
        IN [key |-> keys[k], songs |-> songs,
            artists |-> DistinctInOrder(AlbumArtistAddsFrom(d, songs, 1))]]

\* Line 193.
sorted_albums(d) == Prefix(SortedBySongsDesc(album_data(d)), MaxAlbumNodes)

(***************************************************************************)
(* get_graph_data: album nodes and links (lines 195-219).                  *)
(***************************************************************************)
\* Line 206.
AlbumSize(n) == Max2(5, Min2(n + 5, 25))

AlbumId(album) == AlbumPrefix \o album

\* Line 204.
AlbumDisplayName(album) ==
  IF Len(album) > AlbumNameTruncateLen
  THEN Prefix(album, AlbumNameTruncateLen) \o Ellipsis
  ELSE album

AlbumNode(info, d) ==
  [id |-> AlbumId(info.key), name |-> AlbumDisplayName(info.key), type |-> "album",
   size |-> AlbumSize(Len(info.songs)),
   popularity |-> MeanPopularity(info.songs, d)]

\* Mutant of LinkValue: the number of artists of the album.
LinkValueArtists(info) == Len(info.artists)

\* Line 218.
LinkValue(info) == Len(info.songs)

\* Mutant of IsLinked: the test for a retained artist is missing.
IsLinkedAlways(artist, node_ids) == TRUE

\* Line 214.
IsLinked(artist, node_ids) == ArtistId(artist) \in node_ids

\* Lines 212-219: the links of one album, in the iteration order of its
\* artist set.
AlbumLinks(info, node_ids, seed) ==
  LET order == SetIterationOrder(info.artists, seed)
      linked(a) == IsLinked(a, node_ids)
      kept == SelectSeq(order, linked)
  IN [k \in 1..Len(kept) |->
        [source |-> ArtistId(kept[k]), target |-> AlbumId(info.key),
         value |-> LinkValue(info)]]

RECURSIVE AddAlbumNodes(_, _, _, _, _)
AddAlbumNodes(st, albums, i, d, seed) ==
  IF i > Len(albums) \/ st.raised THEN st
  ELSE IF Len(albums[i].songs) = 0
       THEN AddAlbumNodes(st, albums, i + 1, d, seed)
       ELSE IF PopularityRaises(albums[i].songs, d)
            THEN [st EXCEPT !.raised = TRUE]
            ELSE LET ids == st.node_ids \cup {AlbumId(albums[i].key)}
                 IN AddAlbumNodes(
                      [st EXCEPT !.nodes = Append(@, AlbumNode(albums[i], d)),
                                 !.node_ids = ids,
                                 !.links = @ \o AlbumLinks(albums[i], ids, seed)],
                      albums, i + 1, d, seed)

\* The handler's locals when it leaves the try block (lines 113-219).
GraphLocals(d, seed) ==
  LET artists_done == AddArtistNodes(NoLocals, sorted_artists(d), 1, d)
  IN IF artists_done.raised THEN artists_done
     ELSE AddAlbumNodes(artists_done, sorted_albums(d), 1, d, seed)

CountType(nodes, type) == Cardinality({i \in 1..Len(nodes) : nodes[i].type = type})

\* Lines 223-232.
GraphPayload(st) ==
  [endpoint |-> "graph", status |-> StatusOk,
   body |-> [nodes |-> st.nodes, links |-> st.links,
             stats |-> [total_nodes |-> Len(st.nodes),
                        total_links |-> Len(st.links),
                        artists |-> CountType(st.nodes, "artist"),
                        albums |-> CountType(st.nodes, "album")]]]

\* Mutant of GraphErrorPayload: the lists built so far are returned.
GraphErrorPayloadPartial(st) ==
  [endpoint |-> "graph", status |-> StatusError,
   body |-> [error |-> "TypeError", nodes |-> st.nodes, links |-> st.links]]

\* Lines 233-241: the except branch; the message itself is not modelled.
GraphErrorPayload(st) ==
  [endpoint |-> "graph", status |-> StatusError,
   body |-> [error |-> "TypeError", nodes |-> <<>>, links |-> <<>>]]

GraphResponse(st) == IF st.raised THEN GraphErrorPayload(st) ELSE GraphPayload(st)

(***************************************************************************)
(* get_statistics (lines 25-107).                                          *)
(***************************************************************************)
RECURSIVE SumFrom(_, _)
SumFrom(xs, i) == IF i > Len(xs) THEN 0 ELSE xs[i] + SumFrom(xs, i + 1)

Sum(xs) == SumFrom(xs, 1)

\* A float result: the value in 10^-k units, or ZeroDivisionError raised.
Float(v) == [raised |-> FALSE, val |-> v]
Divide(num, den) ==
  IF den = 0 THEN [raised |-> TRUE, val |-> 0]
  ELSE [raised |-> FALSE, val |-> RoundHalfEven(num, den)]

\* Lines 31-32 and 96: round(total_duration_ms / 3600000, 2), in hundredths.
total_hours(d) ==
  Divide(100 * Sum([i \in 1..Len(d) |-> d[i].duration_ms]), 1000 * 60 * 60)

\* Mutant of avg_popularity: the test for an empty library is missing.
avg_popularity_unguarded(d) ==
  Divide(10 * Sum([i \in 1..Len(d) |-> d[i].popularity.val]), Len(d))

\* Lines 34 and 97, in tenths.
avg_popularity(d) ==
  IF Len(d) > 0
  THEN Divide(10 * Sum([i \in 1..Len(d) |-> d[i].popularity.val]), Len(d))
  ELSE Float(0)

\* Lines 35 and 98, in hundredths (duration_minutes is held in hundredths).
avg_duration_min(d) ==
  IF Len(d) > 0
  THEN Divide(Sum([i \in 1..Len(d) |-> d[i].duration_minutes]), Len(d))
  ELSE Float(0)

\* Line 37.
explicit_count(d) == Cardinality({i \in 1..Len(d) : d[i].explicit})

\* Line 100, in tenths.
explicit_percentage(d) ==
  IF Len(d) > 0 THEN Divide(1000 * explicit_count(d), Len(d)) ELSE Float(0)

\* Counter(keys): the distinct keys in first-occurrence order with their
\* numbers of occurrences.
Counter(keys) ==
  LET distinct == DistinctInOrder(keys)
  IN [k \in 1..Len(distinct) |->
        [key |-> distinct[k],
         count |-> Cardinality({p \in 1..Len(keys) : keys[p] = distinct[k]})]]

\* Counter.most_common(n): descending count, equal counts in
\* first-occurrence order.
most_common(counts, n) ==
  LET perm == OrderDesc([i \in 1..Len(counts) |-> counts[i].count])
  IN Prefix([i \in 1..Len(counts) |-> counts[perm[i]]], n)

\* Line 42, for a str field.
StatisticsArtists(song) == split(song.artist_names, Comma)

RECURSIVE AllArtistsFrom(_, _)
AllArtistsFrom(d, i) ==
  IF i > Len(d) THEN <<>>
  ELSE StatisticsArtists(d[i]) \o AllArtistsFrom(d, i + 1)

\* Lines 40-45.
artist_counts(d) == Counter(AllArtistsFrom(d, 1))

\* Line 49.
album_counts(d) == Counter([i \in 1..Len(d) |-> d[i].album_name])

DigitChars == <<"0", "1", "2", "3", "4", "5", "6", "7", "8", "9">>
DigitOf(c) == (CHOOSE k \in 1..10 : DigitChars[k] = c) - 1

\* int(year) for the year prefixes of the libraries modelled: decimal
\* digits parse, anything else raises ValueError.
IntParses(s) == s # <<>> /\ \A i \in 1..Len(s) : s[i] \in Range(DigitChars)

RECURSIVE IntOf(_, _)
IntOf(s, n) == IF n = 0 THEN 0 ELSE 10 * IntOf(s, n - 1) + DigitOf(s[n])

RECURSIVE StrOf(_)
StrOf(n) ==
  IF n < 10 THEN <<DigitChars[n + 1]>>
  ELSE StrOf(n \div 10) \o <<DigitChars[(n % 10) + 1]>>

\* Lines 53-57: the year prefixes of the songs with a release date.
Years(d) ==
  LET dated == SelectSeq(d, LAMBDA song : song.album_release_date # <<>>)
  IN [i \in 1..Len(dated) |-> Prefix(dated[i].album_release_date, 4)]

\* Lines 61-66: f"{decade}s" of every year that parses.
DecadeKeys(d) ==
  LET parsed == SelectSeq(Years(d), IntParses)
  IN [i \in 1..Len(parsed) |->
        StrOf((IntOf(parsed[i], Len(parsed[i])) \div 10) * 10) \o <<"s">>]

\* Order of str: by code point, a proper prefix first.
CharRank(c) == IF c \in Range(DigitChars) THEN DigitOf(c) ELSE 10

RECURSIVE StrLess(_, _)
StrLess(a, b) ==
  IF b = <<>> THEN FALSE
  ELSE IF a = <<>> THEN TRUE
  ELSE IF CharRank(Head(a)) # CharRank(Head(b))
       THEN CharRank(Head(a)) < CharRank(Head(b))
       ELSE StrLess(Tail(a), Tail(b))

\* Line 68: sorted(decades.items()).
decade_distribution(d) ==
  LET decades == Counter(DecadeKeys(d))
      pos(i) == 1 + Cardinality({j \in 1..Len(decades) :
                                   StrLess(decades[j].key, decades[i].key)})
  IN [k \in 1..Len(decades) |->
        LET i == CHOOSE i \in 1..Len(decades) : pos(i) = k
        IN [decade |-> decades[i].key, count |-> decades[i].count]]

\* Lines 79-90.
PopularityRange(pop) ==
  IF pop <= 20 THEN 1
  ELSE IF pop <= 40 THEN 2
  ELSE IF pop <= 60 THEN 3
  ELSE IF pop <= 80 THEN 4
  ELSE 5

RangeNames == <<"0-20", "21-40", "41-60", "61-80", "81-100">>

\* Lines 71-92.
popularity_distribution(d) ==
  [r \in 1..5 |->
     [range |-> RangeNames[r],
      count |-> Cardinality({i \in 1..Len(d) :
                               PopularityRange(d[i].popularity.val) = r})]]

NameCounts(counts) ==
  [i \in 1..Len(counts) |-> [name |-> counts[i].key, count |-> counts[i].count]]

\* An exception leaves get_statistics, which has no try block: a popularity
\* that is not a number (lines 34, 81) or a division by zero.
StatisticsRaises(d) ==
  \/ \E i \in 1..Len(d) : ~d[i].popularity.num
  \/ total_hours(d).raised
  \/ avg_popularity(d).raised
  \/ avg_duration_min(d).raised
  \/ explicit_percentage(d).raised

\* Lines 94-107.
StatisticsPayload(d) ==
  [endpoint |-> "statistics", status |-> StatusOk,
   body |-> [total_songs |-> Len(d),
             total_hours |-> total_hours(d).val,
             avg_popularity |-> avg_popularity(d).val,
             avg_duration_min |-> avg_duration_min(d).val,
             explicit_count |-> explicit_count(d),
             explicit_percentage |-> explicit_percentage(d).val,
             total_artists |-> Len(artist_counts(d)),
             total_albums |-> Len(album_counts(d)),
             top_artists |-> NameCounts(most_common(artist_counts(d), TopStatistics)),
             top_albums |-> NameCounts(most_common(album_counts(d), TopStatistics)),
             decade_distribution |-> decade_distribution(d),
             popularity_distribution |-> popularity_distribution(d)]]

\* What the framework answers when the exception leaves the handler.
UnhandledError(endpoint) ==
  [endpoint |-> endpoint, status |-> StatusError, body |-> [unhandled |-> TRUE]]

StatisticsResponse(d) ==
  IF StatisticsRaises(d) THEN UnhandledError("statistics") ELSE StatisticsPayload(d)

(***************************************************************************)
(* The record file: the libraries load_spotify_data may read.              *)
(***************************************************************************)
\* artist_names, album_name and album_release_date are str, as export.py
\* writes them (lines 70-73), so the branches of the handlers for a field
\* that is not a str are not reached; popularity is a number or not.
Number(n) == [num |-> TRUE, val |-> n]
\* A popularity that is not a number (a JSON string or null).
NotANumber == [num |-> FALSE, val |-> 0]

Song(artist_names, album_name, popularity, album_release_date, explicit) ==
  [artist_names |-> artist_names, album_name |-> album_name,
   popularity |-> popularity, album_release_date |-> album_release_date,
   explicit |-> explicit, duration_ms |-> 200000, duration_minutes |-> 333]

AlbumX == <<"X">>
AlbumY == <<" ", "Y">>
Date1999 == <<"1", "9", "9", "9", "-", "0", "5", "-", "0", "1">>
Date2005 == <<"2", "0", "0", "5">>
DateUnknown == <<"u", "n", "k", "n", "o", "w", "n">>

SampleFields ==
  { <<"A">>, <<"B">>, <<"A", ",", " ", "B">>, <<"A", ",", " ", "A">>,
    <<"A", ";", " ", "B">>, <<>> }

SampleRecords ==
  {Song(f, AlbumX, Number(10), Date1999, FALSE) : f \in SampleFields}
    \cup {Song(f, AlbumY, Number(35), Date2005, TRUE) : f \in SampleFields}
    \cup { Song(<<"A">>, AlbumX, NotANumber, <<>>, FALSE),
           Song(<<"B">>, <<" ">>, Number(90), DateUnknown, TRUE) }

SmallLibraries == UNION {[1..n -> SampleRecords] : n \in 0..MaxRecords}

Glyphs ==
  <<"a", "b", "c", "d", "e", "f", "g", "h", "i", "j", "k", "l", "m",
    "n", "o", "p", "q", "r", "s", "t", "u", "v", "w", "x", "y", "z",
    "A", "B", "C", "D", "E", "F", "G", "H", "I", "J", "K", "L", "M",
    "N", "O", "P", "Q", "R", "S", "T", "U", "V", "W", "X", "Y", "Z",
    "0", "1", "2", "3", "4", "5", "6", "7", "8", "9">>

\* ', '.join of the one-glyph names i..n (export.py line 71).
RECURSIVE JoinedNames(_, _)
JoinedNames(i, n) ==
  IF i > n THEN <<>>
  ELSE IF i = n THEN <<Glyphs[i]>>
  ELSE <<Glyphs[i]>> \o Comma \o JoinedNames(i + 1, n)

\* n songs over n artists, 25 songs to an album: song i is by the artists
\* i..n, so artist j has j songs and the first artists met have the fewest
\* songs.
Staircase(n) ==
  [i \in 1..n |->
     Song(JoinedNames(i, n), <<"L", Glyphs[((i - 1) \div 25) + 1]>>,
          Number(50), Date2005, FALSE)]

\* n songs, each by its own artist; each on its own album, but the last,
\* which is on the album of the one before it.
Singles(n) ==
  [i \in 1..n |->
     Song(<<Glyphs[i]>>, <<"L", Glyphs[i - (i \div n)]>>,
          Number(50), Date1999, FALSE)]

LargeLibraries == {Staircase(NumStairArtists), Singles(NumSingles)}

FieldAlphabet == {"A", ",", ";", " "}

Fields == UNION {[1..n -> FieldAlphabet] : n \in 0..MaxFieldLen}

\* One-song libraries over every artist-names field up to MaxFieldLen.
FieldLibraries == {<<Song(f, AlbumX, Number(10), Date1999, FALSE)>> : f \in Fields}

HashSeeds == 0..(NumHashSeeds - 1)

NoResponse == [endpoint |-> "none", status |-> 0, body |-> [none |-> TRUE]]

(***************************************************************************)
(* The state machine.                                                      *)
(***************************************************************************)
Init ==
  /\ \/ data \in SmallLibraries
     \/ data \in LargeLibraries
  /\ hashseed \in HashSeeds
  /\ response = NoResponse

InitFields ==
  /\ data \in FieldLibraries
  /\ hashseed \in HashSeeds
  /\ response = NoResponse

\* Lines 10-12.
load_spotify_data == data

\* GET /api/statistics
get_statistics ==
  /\ response' = StatisticsResponse(load_spotify_data)
  /\ UNCHANGED <<data, hashseed>>

\* GET /api/graph-data
get_graph_data ==
  /\ response' = GraphResponse(GraphLocals(load_spotify_data, hashseed))
  /\ UNCHANGED <<data, hashseed>>

\* The server process is started again (line 244) and draws a new string
\* hash seed; the client keeps the last response it received.
Restart ==
  /\ \E seed \in HashSeeds : hashseed' = seed
  /\ UNCHANGED <<data, response>>

Next == get_statistics \/ get_graph_data \/ Restart

Spec == Init /\ [][Next]_vars

SpecFields == InitFields /\ [][Next]_vars

(***************************************************************************)
(* Properties.                                                             *)
(***************************************************************************)
GraphAnswered == response.endpoint = "graph"
GraphOk == GraphAnswered /\ response.status = StatusOk
StatisticsOk == response.endpoint = "statistics" /\ response.status = StatusOk

NodesOfType(type) == SelectSeq(response.body.nodes, LAMBDA n : n.type = type)
Keys(groups) == {groups[i].key : i \in 1..Len(groups)}
Counts(groups) == [i \in 1..Len(groups) |-> Len(groups[i].songs)]
Unprefixed(prefix, id) == SubSeq(id, Len(prefix) + 1, Len(id))

\* The pairs (artist, album) of a retained album and a retained artist of
\* its artist set.
RetainedPairs ==
  LET albums == sorted_albums(data)
      artists == Keys(sorted_artists(data))
  IN UNION {{<<a, albums[i].key>> : a \in Range(albums[i].artists) \cap artists} :
              i \in 1..Len(albums)}

\* A retained album names an artist who is not retained.
SomeArtistDropped ==
  LET albums == sorted_albums(data)
      artists == Keys(sorted_artists(data))
  IN \E i \in 1..Len(albums) : \E a \in Range(albums[i].artists) : a \notin artists

\* C1: the links of a graph payload are exactly the pairs of a retained
\* album and a retained artist of its artist set, one link per pair; every
\* link's source is the id of an artist node and its target the id of an
\* album node of the payload, and only retained artists have nodes.
C1_LinksAreRetainedPairs ==
  GraphOk =>
    LET links == response.body.links
        nodes == response.body.nodes
        pairs == RetainedPairs
        artistIds == {nodes[i].id : i \in {j \in 1..Len(nodes) : nodes[j].type = "artist"}}
        albumIds == {nodes[i].id : i \in {j \in 1..Len(nodes) : nodes[j].type = "album"}}
    IN /\ {<<links[i].source, links[i].target>> : i \in 1..Len(links)}
            = {<<ArtistId(p[1]), AlbumId(p[2])>> : p \in pairs}
       /\ Len(links) = Cardinality(pairs)
       /\ \A i \in 1..Len(links) :
            links[i].source \in artistIds /\ links[i].target \in albumIds
       /\ artistIds = {ArtistId(a) : a \in Keys(sorted_artists(data))}

C1_Witness ==
  GraphOk /\ Len(response.body.links) > 0 /\ SomeArtistDropped

\* shownKeys are the keys of the first `limit` groups in descending order of
\* record count, groups of equal count in the order of first insertion.
TopGroupsInOrder(shownKeys, groups, limit) ==
  LET count == Counts(groups)
      before(a, b) == count[a] > count[b] \/ (count[a] = count[b] /\ a < b)
  IN /\ Len(shownKeys) = Min2(limit, Len(groups))
     /\ Len(shownKeys) <= limit
     /\ Range(shownKeys) \subseteq Keys(groups)
     /\ LET at == [i \in 1..Len(shownKeys) |->
                     CHOOSE j \in 1..Len(groups) : groups[j].key = shownKeys[i]]
        IN /\ \A i \in 1..(Len(at) - 1) : before(at[i], at[i + 1])
           /\ \A g \in (1..Len(groups)) \ Range(at) :
                \A i \in 1..Len(at) : before(at[i], g) /\ count[g] <= count[at[i]]

\* C2: the artist nodes are the first 50 and the album nodes the first 40
\* groups in descending order of record count, ties in first-insertion
\* order, the artist nodes first; an artist left out has no node and is the
\* source of no link.
C2_TopGroupsRetained ==
  GraphOk =>
    LET nodes == response.body.nodes
        links == response.body.links
        artists == NodesOfType("artist")
        albums == NodesOfType("album")
        artistGroups == artist_songs(data)
        albumGroups == album_data(data)
    IN /\ TopGroupsInOrder([i \in 1..Len(artists) |-> artists[i].name], artistGroups, 50)
       /\ TopGroupsInOrder([i \in 1..Len(albums) |-> Unprefixed(AlbumPrefix, albums[i].id)],
                           albumGroups, 40)
       /\ nodes = artists \o albums
       /\ \A i \in 1..Len(artists) : artists[i].id = ArtistPrefix \o artists[i].name
       /\ \A i \in 1..Len(links) :
            \E j \in 1..Len(artists) : links[i].source = artists[j].id

\* More than 50 artists of pairwise distinct record counts, some of them
\* left out.
C2_Witness ==
  /\ GraphOk
  /\ LET count == Counts(artist_songs(data))
     IN /\ Len(count) > 50
        /\ \A i, j \in 1..Len(count) : i # j => count[i] # count[j]
  /\ Len(NodesOfType("artist")) = 50
  /\ Len(NodesOfType("album")) > 0

\* The number of songs of an album whose artist-names field yields an artist.
PairingCount(album, artist) ==
  Cardinality({idx \in Range(album.songs) : artist \in Range(SongAlbumArtists(data[idx]))})

\* The links whose value is not the number of records of their album whose
\* artist-names field yields their artist.
OffPairingLinks ==
  LET links == response.body.links
      albums == album_data(data)
      album(link) == albums[CHOOSE i \in 1..Len(albums) :
                              AlbumId(albums[i].key) = link.target]
  IN IF Len(albums) = 0 THEN {}
     ELSE {i \in 1..Len(links) :
             links[i].value # PairingCount(album(links[i]),
                                           Unprefixed(ArtistPrefix, links[i].source))}

\* C3 (as claimed): a link's value is the number of records of its album
\* whose artist-names field yields its artist.
C3_ValueIsPairingCount == GraphOk => OffPairingLinks = {}

\* C3 (amended): a link's value is the number of records of its album,
\* whichever of them name its artist.
C3_ValueIsAlbumCount ==
  GraphOk =>
    LET links == response.body.links
        target == [idx \in 1..Len(data) |-> AlbumId(AlbumKey(data[idx]))]
    IN \A i \in 1..Len(links) :
         links[i].value = Cardinality({idx \in 1..Len(data) : target[idx] = links[i].target})

C3_Witness == GraphOk /\ OffPairingLinks # {}

\* The record counts of the groups of the given keys.
RecordCounts(keys, groups) ==
  [i \in 1..Len(keys) |->
     Len(groups[CHOOSE j \in 1..Len(groups) : groups[j].key = keys[i]].songs)]

\* C8: an artist node of a group of n records has size max(5, min(2n, 30)),
\* within 5..30; an album node has size max(5, min(n + 5, 25)), within 5..25.
C8_NodeSizesClamped ==
  GraphOk =>
    LET artists == NodesOfType("artist")
        albums == NodesOfType("album")
        artistGroups == artist_songs(data)
        albumGroups == album_data(data)
        artistCount == RecordCounts([i \in 1..Len(artists) |-> artists[i].name],
                                    artistGroups)
        albumCount == RecordCounts([i \in 1..Len(albums) |->
                                      Unprefixed(AlbumPrefix, albums[i].id)],
                                   albumGroups)
    IN /\ Len(artists) <= Len(artistGroups)
       /\ Len(albums) <= Len(albumGroups)
       /\ \A i \in 1..Len(artists) :
            LET n == artistCount[i]
            IN /\ n >= 1
               /\ artists[i].size \in 5..30
               /\ artists[i].size =
                    IF 2 * n <= 5 THEN 5 ELSE IF 2 * n >= 30 THEN 30 ELSE 2 * n
       /\ \A i \in 1..Len(albums) :
            LET n == albumCount[i]
            IN /\ n >= 1
               /\ albums[i].size \in 5..25
               /\ albums[i].size = IF n + 5 >= 25 THEN 25 ELSE n + 5

\* An artist of more than 15 records and an album of more than 20.
C8_Witness ==
  /\ GraphOk
  /\ \E i \in 1..Len(response.body.nodes) :
       /\ response.body.nodes[i].type = "artist"
       /\ response.body.nodes[i].size = 30
  /\ \E i \in 1..Len(response.body.nodes) :
       /\ response.body.nodes[i].type = "album"
       /\ response.body.nodes[i].size = 25
  /\ Len(data) > 20

\* C4 (as claimed): a handler run again on the unchanged record file
\* answers what it answered before, the order of nodes and links included.
C4_SameAnswerAgain ==
  [][(\/ response.endpoint = "graph" /\ response'.endpoint = "graph"
      \/ response.endpoint = "statistics" /\ response'.endpoint = "statistics")
       => response' = response]_vars

\* The number of records whose artist-names field yields an artist.
RecordsNaming(artist) ==
  Cardinality({idx \in 1..Len(data) : artist \in Range(SongArtists(data[idx]))})

\* C5 (as claimed): the names extracted from one field are pairwise distinct,
\* and an artist's node size counts each record naming the artist once.
C5_RecordCountedOnce ==
  GraphOk =>
    /\ \A idx \in 1..Len(data) :
         LET artists == SongArtists(data[idx])
         IN \A i, j \in 1..Len(artists) : i # j => artists[i] # artists[j]
    /\ LET artists == NodesOfType("artist")
       IN \A i \in 1..Len(artists) :
            artists[i].size = Max2(5, Min2(2 * RecordsNaming(artists[i].name), 30))

\* The delimiter-priority rule, read off a field from left to right.
RECURSIVE ScanTokens(_, _, _)
ScanTokens(s, sep, token) ==
  IF s = <<>> THEN <<token>>
  ELSE IF Len(s) >= Len(sep) /\ SubSeq(s, 1, Len(sep)) = sep
       THEN <<token>> \o ScanTokens(SubSeq(s, Len(sep) + 1, Len(s)), sep, <<>>)
       ELSE ScanTokens(Tail(s), sep, Append(token, Head(s)))

RECURSIVE TrimLeft(_)
TrimLeft(s) == IF s # <<>> /\ Head(s) = " " THEN TrimLeft(Tail(s)) ELSE s

RECURSIVE TrimRight(_)
TrimRight(s) ==
  IF s # <<>> /\ s[Len(s)] = " " THEN TrimRight(SubSeq(s, 1, Len(s) - 1)) ELSE s

Follows(s, c1, c2) == \E i \in 1..(Len(s) - 1) : s[i] = c1 /\ s[i + 1] = c2

RuleNames(field) ==
  LET tokens == IF Follows(field, ",", " ") THEN ScanTokens(field, Comma, <<>>)
                ELSE IF Follows(field, ";", " ") THEN ScanTokens(field, Semicolon, <<>>)
                ELSE <<field>>
      trimmed == [i \in 1..Len(tokens) |-> TrimRight(TrimLeft(tokens[i]))]
  IN SelectSeq(trimmed, LAMBDA t : t # <<>>)

\* C6: both places of get_graph_data that extract names from an
\* artist-names field yield the names of the delimiter-priority rule: split
\* on ', ' if present, else on '; ' if present, else the whole field; tokens
\* trimmed, empty tokens dropped.  A one-song library has exactly these
\* artists as nodes and as sources of links.
C6_DelimiterPriority ==
  GraphAnswered =>
    /\ response.status = StatusOk
    /\ \A idx \in 1..Len(data) :
         /\ SongArtists(data[idx]) = RuleNames(data[idx].artist_names)
         /\ SongAlbumArtists(data[idx]) = RuleNames(data[idx].artist_names)
    /\ Len(data) = 1 =>
         LET names == Range(RuleNames(data[1].artist_names))
             artists == NodesOfType("artist")
             links == response.body.links
         IN /\ {artists[i].name : i \in 1..Len(artists)} = names
            /\ {links[i].source : i \in 1..Len(links)} = {ArtistPrefix \o a : a \in names}

\* A field with both delimiters, a '; ' kept inside a name.
C6_Witness ==
  /\ GraphOk
  /\ Len(data) = 1
  /\ Follows(data[1].artist_names, ",", " ")
  /\ \E i \in 1..Len(response.body.nodes) :
       /\ response.body.nodes[i].type = "artist"
       /\ Follows(response.body.nodes[i].name, ";", " ")

\* A song whose popularity is not a number is in a retained group.
RetainedSongNotNumeric ==
  LET artists == Keys(sorted_artists(data))
      albums == Keys(sorted_albums(data))
  IN \E idx \in 1..Len(data) :
       /\ ~data[idx].popularity.num
       /\ \/ AlbumKey(data[idx]) \in albums
          \/ Range(SongArtists(data[idx])) \cap artists # {}

\* C7: get_graph_data answers a failure raised while the graph is built with
\* the error payload: status 500, an error message, no node and no link;
\* the exception does not leave the handler.
C7_ErrorPayloadIsEmpty ==
  GraphAnswered =>
    LET empty == /\ response.status = StatusError
                 /\ "error" \in DOMAIN response.body
                 /\ response.body.nodes = <<>>
                 /\ response.body.links = <<>>
    IN /\ "unhandled" \notin DOMAIN response.body
       /\ RetainedSongNotNumeric => empty
       /\ response.status # StatusOk => empty

\* The exception was raised after a node had been appended.
C7_Witness ==
  /\ GraphAnswered
  /\ response.status = StatusError
  /\ GraphLocals(data, hashseed).nodes # <<>>

\* C9: on an empty record file get_statistics answers zeros and empty lists
\* and get_graph_data answers the payload of an empty graph; neither fails.
C9_EmptyLibrary ==
  data = <<>> =>
    /\ response.endpoint = "statistics" =>
         /\ response.status = StatusOk
         /\ "unhandled" \notin DOMAIN response.body
         /\ response.body.total_songs = 0
         /\ response.body.avg_popularity = 0
         /\ response.body.avg_duration_min = 0
         /\ response.body.explicit_count = 0
         /\ response.body.explicit_percentage = 0
         /\ response.body.total_artists = 0
         /\ response.body.total_albums = 0
         /\ response.body.top_artists = <<>>
         /\ response.body.top_albums = <<>>
         /\ response.body.decade_distribution = <<>>
         /\ Len(response.body.popularity_distribution) = 5
         /\ \A r \in 1..5 : response.body.popularity_distribution[r].count = 0
    /\ response.endpoint = "graph" =>
         /\ response.status = StatusOk
         /\ "error" \notin DOMAIN response.body
         /\ response.body.nodes = <<>>
         /\ response.body.links = <<>>
         /\ response.body.stats
              = [total_nodes |-> 0, total_links |-> 0, artists |-> 0, albums |-> 0]

C9_Witness == data = <<>> /\ response.endpoint = "statistics"

\* C10 (as claimed): the artists get_statistics counts are the artist groups
\* of get_graph_data, with the same record counts.
C10_StatisticsUseArtistGroups ==
  StatisticsOk =>
    LET groups == artist_songs(data)
        top == Prefix(SortedBySongsDesc(groups), 10)
    IN /\ response.body.total_artists = Len(groups)
       /\ response.body.top_artists
            = [i \in 1..Len(top) |-> [name |-> top[i].key, count |-> Len(top[i].songs)]]

====
